---- MODULE Spec2Model ----
(***************************************************************************)
(* A model of the linked list of linkedlist.c / linkedlist.h: the heap of  *)
(* ListNode cells, the LinkedList structs (head, tail, size), one Iterator *)
(* and the list and iterator functions, each translated from its C body.   *)
(*                                                                         *)
(* Pointers are naturals, NULL is 0.  An access through NULL or through a  *)
(* pointer to a freed node (load, store or free) is undefined behaviour:   *)
(* the run may fault or carry on in any state whatever.  The model records *)
(* it as status "undefined" and follows the run no further; nothing can be *)
(* said of the result of a call that ends there.  The contents of a freed  *)
(* cell are indeterminate and are never read by a defined run.  A read of  *)
(* an uninitialised local yields any value.                                *)
(***************************************************************************)
EXTENDS Integers, Sequences, FiniteSets, TLC

MaxLen   == 3            \* the caller lets no list grow beyond this length
NumVals  == 2            \* number of distinct non-NULL element pointers
MaxNodes == 2 * MaxLen   \* ListNode cells: room for two lists

NULL   == 0
Nodes  == 1..MaxNodes
Values == 1..NumVals
Lists  == {1, 2}

VARIABLES
    val,      \* ListNode.value of every cell
    nxt,      \* ListNode.next of every cell
    alloc,    \* cells malloc'ed and not yet freed
    head,     \* LinkedList.head of each list
    tail,     \* LinkedList.tail of each list
    size,     \* LinkedList.size of each list
    destructor, \* LinkedList.destructor of each list: the function it names
    destroyed,  \* the destructor calls of the last call: <<function, argument>>
    events,   \* what the last call did to the elements, in order (see Event)
    string,   \* the characters the last l_toString wrote into its buffer
    status,   \* "ok", "undefined" (see above) or "hung" (a loop that never ends)
    itr,      \* the Iterator struct
    itrOpen,  \* the Iterator has been created and not yet freed
    pending,  \* history: a successful i_next since l_iterator / the last removal
    ret,      \* what the last call returned (pointer, int or bool as 0/1)
    arr,      \* the array returned by the last l_toArray
    readers,  \* the Iterator structs of the read-only program, with what each
              \* has returned since l_iterator made it (history)
    copied,   \* history: list 2 is what l_copy returned, changed or not since
    added,    \* history: the values appended to list 1 since it was created
    last      \* the last call: its name and arguments

vars == <<val, nxt, alloc, head, tail, size, destructor, destroyed, events,
          string, status, itr, itrOpen, pending, ret, arr, readers, copied,
          added, last>>

(***************************************************************************)
(* The memory and the list structs as one record, so that the C functions  *)
(* are operators from records to records.                                  *)
(***************************************************************************)
World == [val |-> val, nxt |-> nxt, alloc |-> alloc, head |-> head,
          tail |-> tail, size |-> size, destructor |-> destructor,
          destroyed |-> <<>>, events |-> <<>>, string |-> <<>>,
          status |-> status]

\* the functions a list's destructor field can point to: the default one of
\* linkedlist.c, or one of the caller's
Destructors == {"destructor", "caller"}

\* a call of a function pointer on an element, or a store into a node's
\* value field by the mapping functions: "apply", "destroy" or "store"
Event(s, kind, value) == [s EXCEPT !.events = Append(@, <<kind, value>>)]

\* (*list->destructor)(value)
Destroy(s, l, value) ==
    Event([s EXCEPT !.destroyed = Append(@, <<s.destructor[l], value>>)],
          "destroy", value)

Valid(s, n) == n \in s.alloc
Fault(s, n) == ~Valid(s, n)
Trap(s) == [s EXCEPT !.status = "undefined"]
Hang(s) == [s EXCEPT !.status = "hung"]

LoadNext(s, n)  == IF n = NULL THEN NULL ELSE s.nxt[n]
LoadValue(s, n) == IF n = NULL THEN NULL ELSE s.val[n]
StoreNext(s, n, x)  == IF n = NULL THEN s ELSE [s EXCEPT !.nxt[n] = x]
StoreValue(s, n, x) == IF n = NULL THEN s ELSE [s EXCEPT !.val[n] = x]
Malloc(s, n) == [s EXCEPT !.alloc = @ \cup {n}]
Free(s, n)   ==
    IF n = NULL THEN s
    ELSE [s EXCEPT !.alloc = @ \ {n}, !.val[n] = NULL, !.nxt[n] = NULL]

Min(S) == CHOOSE x \in S : \A y \in S : x <= y

\* The cell malloc returns.  A pointer to a freed node stays invalid even if
\* the allocator were to hand the same address out again, so the new cell is
\* one that no pointer left in the lists refers to; it is the lowest such.
Dangling(s) ==
    ({s.head[l] : l \in Lists} \cup {s.tail[l] : l \in Lists}
        \cup {s.nxt[n] : n \in s.alloc}) \ (s.alloc \cup {NULL})
FreeNodes(s) == Nodes \ (s.alloc \cup Dangling(s))
NewNode(s) == Min(FreeNodes(s))

\* the cells reached from the head of list l
RECURSIVE Chain(_, _, _)
Chain(s, n, fuel) ==
    IF n = NULL \/ fuel = 0 THEN <<>>
    ELSE <<n>> \o Chain(s, s.nxt[n], fuel - 1)

Cells(s, l) == Chain(s, s.head[l], MaxNodes + 1)

(***************************************************************************)
(* The functions compare addresses for equality only, so two states that   *)
(* differ by a renaming of the cells behave alike.  Every state is kept in *)
(* one numbering: the cells of list 1 in list order, then those of list 2, *)
(* then the other cells in use, the freed cells still pointed to, and the  *)
(* unused ones.  Commit(s) stores the world s in that numbering and        *)
(* Renumber(it, s) gives an iterator's pointers in it.                     *)
(***************************************************************************)
Range(f) == {f[k] : k \in DOMAIN f}

RECURSIVE Sorted(_)
Sorted(S) == IF S = {} THEN <<>> ELSE <<Min(S)>> \o Sorted(S \ {Min(S)})

Order(s) ==
    LET c1 == Cells(s, 1)
        c2 == Cells(s, 2)
        chained == Range(c1) \cup Range(c2)
        order == c1 \o c2 \o Sorted(s.alloc \ chained)
                    \o Sorted(Dangling(s) \ chained)
                    \o Sorted(Nodes \ (chained \cup s.alloc \cup Dangling(s)))
    IN  IF Len(order) = MaxNodes /\ Range(order) = Nodes
        THEN order
        ELSE [k \in Nodes |-> k]

NewName(order) ==
    [n \in Nodes \cup {NULL} |->
        IF n = NULL THEN NULL ELSE CHOOSE k \in Nodes : order[k] = n]

Store(s) ==
    /\ val' = s.val
    /\ nxt' = s.nxt
    /\ alloc' = s.alloc
    /\ head' = s.head
    /\ tail' = s.tail
    /\ size' = s.size
    /\ destructor' = s.destructor
    /\ destroyed' = s.destroyed
    /\ events' = s.events
    /\ string' = s.string
    /\ status' = s.status

Renamed(s, order, name) ==
    [s EXCEPT !.val = [k \in Nodes |-> s.val[order[k]]],
              !.nxt = [k \in Nodes |-> name[s.nxt[order[k]]]],
              !.alloc = {name[n] : n \in s.alloc},
              !.head = [l \in Lists |-> name[s.head[l]]],
              !.tail = [l \in Lists |-> name[s.tail[l]]]]

\* the numbering changes only when a pointer has
Commit(s) ==
    IF s.nxt = nxt /\ s.alloc = alloc /\ s.head = head /\ s.tail = tail
    THEN Store(s)
    ELSE Store(Renamed(s, Order(s), NewName(Order(s))))

Renumber(it, s) ==
    LET name == NewName(Order(s))
    IN  [it EXCEPT !.next = name[@], !.current = name[@],
                   !.previous = name[@]]

\* tracker = tracker->next, k times
RECURSIVE Walk(_, _, _)
Walk(s, n, k) == IF k <= 0 THEN n ELSE Walk(s, LoadNext(s, n), k - 1)

\* some cell dereferenced by those k steps faults
RECURSIVE WalkFault(_, _, _)
WalkFault(s, n, k) ==
    /\ k > 0
    /\ \/ Fault(s, n)
       \/ WalkFault(s, LoadNext(s, n), k - 1)

Result(s, r) == [s |-> s, r |-> r]

(***************************************************************************)
(* Insertion.                                                              *)
(***************************************************************************)
\* l_addFirst without `node->next = list->head`
L_addFirst_noLink(s, l, value, node) ==
    LET s1 == [Malloc(s, node) EXCEPT !.val[node] = value]
        s2 == IF s1.size[l] = 0
              THEN [s1 EXCEPT !.tail[l] = node, !.nxt[node] = NULL]
              ELSE s1
    IN  [s2 EXCEPT !.head[l] = node, !.size[l] = @ + 1]

L_addFirst(s, l, value, node) ==
    LET s1 == [Malloc(s, node) EXCEPT !.val[node] = value]
        s2 == IF s1.size[l] = 0
              THEN [s1 EXCEPT !.tail[l] = node, !.nxt[node] = NULL]
              ELSE s1
        s3 == [s2 EXCEPT !.nxt[node] = s2.head[l]]
    IN  [s3 EXCEPT !.head[l] = node, !.size[l] = @ + 1]

\* l_addLast without `list->tail->next = node`
L_addLast_noLink(s, l, value, node) ==
    LET s1 == [Malloc(s, node) EXCEPT !.val[node] = value, !.nxt[node] = NULL]
    IN  IF s1.size[l] # 0
        THEN [s1 EXCEPT !.tail[l] = node, !.size[l] = @ + 1]
        ELSE [s1 EXCEPT !.head[l] = node, !.tail[l] = node, !.size[l] = @ + 1]

L_addLast(s, l, value, node) ==
    LET s1 == [Malloc(s, node) EXCEPT !.val[node] = value, !.nxt[node] = NULL]
    IN  IF s1.size[l] # 0
        THEN IF Fault(s1, s1.tail[l]) THEN Trap(s)
             ELSE [StoreNext(s1, s1.tail[l], node)
                      EXCEPT !.tail[l] = node, !.size[l] = @ + 1]
        ELSE [s1 EXCEPT !.head[l] = node, !.tail[l] = node, !.size[l] = @ + 1]

\* l_add with `index >= list->size` in place of `index == list->size`
L_add_pastEnd(s, l, value, index, node) ==
    IF index = 0 THEN L_addFirst(s, l, value, node)
    ELSE IF index >= s.size[l] THEN L_addLast(s, l, value, node)
    ELSE IF index > 0 /\ index < s.size[l]
    THEN LET tracker == Walk(s, s.head[l], index - 1)
             s1 == [Malloc(s, node) EXCEPT !.val[node] = value]
             s2 == [s1 EXCEPT !.nxt[node] = LoadNext(s1, tracker)]
         IN  IF WalkFault(s, s.head[l], index - 1) \/ Fault(s1, tracker)
             THEN Trap(s)
             ELSE [StoreNext(s2, tracker, node) EXCEPT !.size[l] = @ + 1]
    ELSE s

L_add(s, l, value, index, node) ==
    IF index = 0 THEN L_addFirst(s, l, value, node)
    ELSE IF index = s.size[l] THEN L_addLast(s, l, value, node)
    ELSE IF index > 0 /\ index < s.size[l]
    THEN LET tracker == Walk(s, s.head[l], index - 1)
             s1 == [Malloc(s, node) EXCEPT !.val[node] = value]
             s2 == [s1 EXCEPT !.nxt[node] = LoadNext(s1, tracker)]
         IN  IF WalkFault(s, s.head[l], index - 1) \/ Fault(s1, tracker)
             THEN Trap(s)
             ELSE [StoreNext(s2, tracker, node) EXCEPT !.size[l] = @ + 1]
    ELSE s

(***************************************************************************)
(* Replacement and reading.                                                *)
(***************************************************************************)
L_setLast(s, l, value) ==
    IF s.size[l] # 0
    THEN IF Fault(s, s.tail[l]) THEN Result(Trap(s), NULL)
         ELSE Result(StoreValue(s, s.tail[l], value), LoadValue(s, s.tail[l]))
    ELSE Result(s, NULL)

\* l_set reading `tracker->value` after storing into it
L_set_readAfter(s, l, value, index) ==
    IF index = s.size[l] - 1 THEN L_setLast(s, l, value)
    ELSE IF index >= 0 /\ index < s.size[l] - 1
    THEN LET tracker == Walk(s, s.head[l], index)
         IN  IF WalkFault(s, s.head[l], index) \/ Fault(s, tracker)
             THEN Result(Trap(s), NULL)
             ELSE Result(StoreValue(s, tracker, value), value)
    ELSE Result(s, NULL)

L_set(s, l, value, index) ==
    IF index = s.size[l] - 1 THEN L_setLast(s, l, value)
    ELSE IF index >= 0 /\ index < s.size[l] - 1
    THEN LET tracker == Walk(s, s.head[l], index)
         IN  IF WalkFault(s, s.head[l], index) \/ Fault(s, tracker)
             THEN Result(Trap(s), NULL)
             ELSE Result(StoreValue(s, tracker, value), LoadValue(s, tracker))
    ELSE Result(s, NULL)

L_setFirst(s, l, value) == L_set(s, l, value, 0)

L_getLast(s, l) ==
    IF s.size[l] # 0
    THEN IF Fault(s, s.tail[l]) THEN Result(Trap(s), NULL)
         ELSE Result(s, LoadValue(s, s.tail[l]))
    ELSE Result(s, NULL)

\* l_get without the l_getLast branch
L_get_noLast(s, l, index) ==
    IF index >= 0 /\ index < s.size[l] - 1
    THEN LET tracker == Walk(s, s.head[l], index)
         IN  IF WalkFault(s, s.head[l], index) \/ Fault(s, tracker)
             THEN Result(Trap(s), NULL)
             ELSE Result(s, LoadValue(s, tracker))
    ELSE Result(s, NULL)

L_get(s, l, index) ==
    IF index = s.size[l] - 1 THEN L_getLast(s, l)
    ELSE IF index >= 0 /\ index < s.size[l] - 1
    THEN LET tracker == Walk(s, s.head[l], index)
         IN  IF WalkFault(s, s.head[l], index) \/ Fault(s, tracker)
             THEN Result(Trap(s), NULL)
             ELSE Result(s, LoadValue(s, tracker))
    ELSE Result(s, NULL)

L_getFirst(s, l) == L_get(s, l, 0)

(***************************************************************************)
(* Removal by position.  `junk` is what the uninitialised local `value`    *)
(* happens to hold when no branch assigns it.                              *)
(***************************************************************************)
\* l_removeFirst without `list->size--`
L_removeFirst_noCount(s, l, junk) ==
    IF s.size[l] # 0
    THEN LET old == s.head[l]
             s1 == Free([s EXCEPT !.head[l] = LoadNext(s, old)], old)
             s2 == IF s1.size[l] = 1 THEN [s1 EXCEPT !.tail[l] = NULL] ELSE s1
         IN  IF Fault(s, old) THEN Result(Trap(s), NULL)
             ELSE Result(s2, LoadValue(s, old))
    ELSE Result(s, junk)

L_removeFirst(s, l, junk) ==
    IF s.size[l] # 0
    THEN LET old == s.head[l]
             s1 == Free([s EXCEPT !.head[l] = LoadNext(s, old)], old)
             s2 == IF s1.size[l] = 1 THEN [s1 EXCEPT !.tail[l] = NULL] ELSE s1
         IN  IF Fault(s, old) THEN Result(Trap(s), NULL)
             ELSE Result([s2 EXCEPT !.size[l] = @ - 1], LoadValue(s, old))
    ELSE Result(s, junk)

\* l_removeLast without `list->tail = tracker`
L_removeLast_keepTail(s, l, junk) ==
    IF s.size[l] # 0
    THEN LET value == LoadValue(s, s.tail[l])
             s1 == Free(s, s.tail[l])
         IN  IF Fault(s, s.tail[l]) THEN Result(Trap(s), NULL)
             ELSE IF s1.size[l] = 1
             THEN Result([s1 EXCEPT !.head[l] = NULL, !.tail[l] = NULL,
                                    !.size[l] = @ - 1], value)
             ELSE LET tracker == Walk(s1, s1.head[l], s1.size[l] - 2)
                  IN  IF \/ WalkFault(s1, s1.head[l], s1.size[l] - 2)
                         \/ Fault(s1, tracker)
                      THEN Result(Trap(s), NULL)
                      ELSE Result([StoreNext(s1, tracker, NULL)
                                      EXCEPT !.size[l] = @ - 1], value)
    ELSE Result(s, junk)

L_removeLast(s, l, junk) ==
    IF s.size[l] # 0
    THEN LET value == LoadValue(s, s.tail[l])
             s1 == Free(s, s.tail[l])
         IN  IF Fault(s, s.tail[l]) THEN Result(Trap(s), NULL)
             ELSE IF s1.size[l] = 1
             THEN Result([s1 EXCEPT !.head[l] = NULL, !.tail[l] = NULL,
                                    !.size[l] = @ - 1], value)
             ELSE LET tracker == Walk(s1, s1.head[l], s1.size[l] - 2)
                  IN  IF \/ WalkFault(s1, s1.head[l], s1.size[l] - 2)
                         \/ Fault(s1, tracker)
                      THEN Result(Trap(s), NULL)
                      ELSE Result([StoreNext(s1, tracker, NULL)
                                      EXCEPT !.tail[l] = tracker,
                                             !.size[l] = @ - 1], value)
    ELSE Result(s, junk)

\* l_remove sending every index at or past the end to l_removeLast
L_remove_pastEnd(s, l, index, junk) ==
    IF index = 0 THEN L_removeFirst(s, l, junk)
    ELSE IF index >= s.size[l] - 1 THEN L_removeLast(s, l, junk)
    ELSE IF index > 0 /\ index < s.size[l] - 1
    THEN LET tracker == Walk(s, s.head[l], index - 1)
             old == LoadNext(s, tracker)
             s1 == StoreNext(s, tracker, LoadNext(s, old))
         IN  IF \/ WalkFault(s, s.head[l], index - 1)
                \/ Fault(s, tracker)
                \/ Fault(s, old)
             THEN Result(Trap(s), NULL)
             ELSE Result([Free(s1, old) EXCEPT !.size[l] = @ - 1],
                         LoadValue(s, old))
    ELSE Result(s, junk)

L_remove(s, l, index, junk) ==
    IF index = 0 THEN L_removeFirst(s, l, junk)
    ELSE IF index = s.size[l] - 1 THEN L_removeLast(s, l, junk)
    ELSE IF index > 0 /\ index < s.size[l] - 1
    THEN LET tracker == Walk(s, s.head[l], index - 1)
             old == LoadNext(s, tracker)
             s1 == StoreNext(s, tracker, LoadNext(s, old))
         IN  IF \/ WalkFault(s, s.head[l], index - 1)
                \/ Fault(s, tracker)
                \/ Fault(s, old)
             THEN Result(Trap(s), NULL)
             ELSE Result([Free(s1, old) EXCEPT !.size[l] = @ - 1],
                         LoadValue(s, old))
    ELSE Result(s, junk)

L_deleteFirst(s, l, junk) ==
    IF s.size[l] # 0
    THEN IF Fault(s, s.head[l]) THEN Trap(s)
         ELSE L_removeFirst(Destroy(s, l, LoadValue(s, s.head[l])), l, junk).s
    ELSE s

L_deleteLast(s, l, junk) ==
    IF s.size[l] # 0
    THEN IF Fault(s, s.tail[l]) THEN Trap(s)
         ELSE L_removeLast(Destroy(s, l, LoadValue(s, s.tail[l])), l, junk).s
    ELSE s

L_delete(s, l, index, junk) ==
    IF index >= 0 /\ index < s.size[l]
    THEN LET got == L_get(s, l, index)
         IN  IF got.s.status # "ok" THEN got.s
             ELSE L_remove(Destroy(got.s, l, got.r), l, index, junk).s
    ELSE s

\* the loop of l_removeAll
RECURSIVE FreeChain(_, _)
FreeChain(s, tracker) ==
    IF tracker = NULL THEN s
    ELSE IF Fault(s, tracker) THEN Trap(s)
    ELSE FreeChain(Free(s, tracker), LoadNext(s, tracker))

L_removeAll(s, l) ==
    LET s1 == FreeChain(s, s.head[l])
    IN  IF s1.status # "ok" THEN [s EXCEPT !.status = s1.status]
        ELSE [s1 EXCEPT !.head[l] = NULL, !.tail[l] = NULL, !.size[l] = 0]

(***************************************************************************)
(* The iterator.                                                           *)
(***************************************************************************)
L_iterator(s, l) ==
    [next |-> s.head[l], current |-> NULL, previous |-> NULL,
     list |-> l, index |-> -1]

\* i_hasNext testing `itr->current` in place of `itr->next`
I_hasNext_current(it) == it.current # NULL

I_hasNext(it) == it.next # NULL

IterResult(s, it, r) == [s |-> s, it |-> it, r |-> r]

\* i_next advancing with `itr->next = itr->next->next->next`
I_next_skip(s, it) ==
    IF it.next # NULL
    THEN LET it1 == IF it.current # NULL
                    THEN [it EXCEPT !.previous = it.current]
                    ELSE it
             it2 == [it1 EXCEPT !.current = it.next,
                                !.next = LoadNext(s, LoadNext(s, it.next)),
                                !.index = @ + 1]
         IN  IF Fault(s, it.next) THEN IterResult(Trap(s), it, NULL)
             ELSE IterResult(s, it2, LoadValue(s, it.next))
    ELSE IterResult(s, it, NULL)

I_next(s, it) ==
    IF it.next # NULL
    THEN LET it1 == IF it.current # NULL
                    THEN [it EXCEPT !.previous = it.current]
                    ELSE it
             it2 == [it1 EXCEPT !.current = it.next,
                                !.next = LoadNext(s, it.next),
                                !.index = @ + 1]
         IN  IF Fault(s, it.next) THEN IterResult(Trap(s), it, NULL)
             ELSE IterResult(s, it2, LoadValue(s, it.next))
    ELSE IterResult(s, it, NULL)

\* i_remove without `itr->current = NULL`
I_remove_keepCurrent(s, it) ==
    IF it.current # NULL
    THEN LET value == LoadValue(s, it.current)
             s1 == StoreNext(s, it.previous, it.next)
             s2 == Free(s1, it.current)
         IN  IF Fault(s, it.current) \/ Fault(s, it.previous)
             THEN IterResult(Trap(s), it, NULL)
             ELSE IterResult([s2 EXCEPT !.size[it.list] = @ - 1], it, value)
    ELSE IterResult(s, it, NULL)

I_remove(s, it) ==
    IF it.current # NULL
    THEN LET value == LoadValue(s, it.current)
             s1 == StoreNext(s, it.previous, it.next)
             s2 == Free(s1, it.current)
         IN  IF Fault(s, it.current) \/ Fault(s, it.previous)
             THEN IterResult(Trap(s), it, NULL)
             ELSE IterResult([s2 EXCEPT !.size[it.list] = @ - 1],
                             [it EXCEPT !.current = NULL], value)
    ELSE IterResult(s, it, NULL)

\* the destructor is called with whatever i_remove returns, NULL included
I_delete(s, it) ==
    LET res == I_remove(s, it)
    IN  IF res.s.status # "ok" THEN res
        ELSE IterResult(Destroy(res.s, it.list, res.r), res.it, NULL)

(***************************************************************************)
(* Closures.  A Predicate pairs a function with its context `params`.  The *)
(* functions are `equality` of linkedlist.c and a caller's predicate       *)
(* "member", true of the elements in the set it is given as context.       *)
(* StackValue is the address of the parameter `value` of the function that *)
(* builds the closure, the `&value` it passes as context: a pointer to the *)
(* stack, different from every element pointer.                            *)
(***************************************************************************)
StackValue == -1

equality(element, reference) == element = reference

C_predicate(func, params) == [func |-> func, params |-> params]

Apply(selector, element) ==
    IF selector.func = "equality"
    THEN equality(element, selector.params)
    ELSE element \in selector.params

\* A Function pairs a function with its context; the caller's function
\* "table" looks the element up in the table it is given as context.
C_function(func, params) == [func |-> func, params |-> params]

ApplyFunction(mapper, element) == mapper.params[element]

(***************************************************************************)
(* Removal and search by predicate: loops over a fresh iterator.  A loop   *)
(* that has taken more steps than there are cells is on a cycle.           *)
(***************************************************************************)
RECURSIVE RemoveIfLoop(_, _, _, _)
RemoveIfLoop(s, it, selector, fuel) ==
    IF ~I_hasNext(it) THEN s
    ELSE IF fuel = 0 THEN Hang(s)
    ELSE LET n == I_next(s, it)
             r == I_remove(n.s, n.it)
         IN  IF n.s.status # "ok" THEN n.s
             ELSE IF Apply(selector, n.r)
             THEN IF r.s.status # "ok" THEN r.s
                  ELSE RemoveIfLoop(r.s, r.it, selector, fuel - 1)
             ELSE RemoveIfLoop(n.s, n.it, selector, fuel - 1)

L_removeIf(s, l, selector) ==
    RemoveIfLoop(s, L_iterator(s, l), selector, MaxNodes)

L_removeValue(s, l, value) ==
    L_removeIf(s, l, C_predicate("equality", StackValue))

RECURSIVE DeleteIfLoop(_, _, _, _)
DeleteIfLoop(s, it, selector, fuel) ==
    IF ~I_hasNext(it) THEN s
    ELSE IF fuel = 0 THEN Hang(s)
    ELSE LET n == I_next(s, it)
             r == I_delete(n.s, n.it)
         IN  IF n.s.status # "ok" THEN n.s
             ELSE IF Apply(selector, n.r)
             THEN IF r.s.status # "ok" THEN r.s
                  ELSE DeleteIfLoop(r.s, r.it, selector, fuel - 1)
             ELSE DeleteIfLoop(n.s, n.it, selector, fuel - 1)

L_deleteIf(s, l, selector) ==
    DeleteIfLoop(s, L_iterator(s, l), selector, MaxNodes)

\* the loop of l_deleteAll
RECURSIVE DestroyLoop(_, _, _, _)
DestroyLoop(s, l, it, fuel) ==
    IF ~I_hasNext(it) THEN s
    ELSE IF fuel = 0 THEN Hang(s)
    ELSE LET n == I_next(s, it)
         IN  IF n.s.status # "ok" THEN n.s
             ELSE DestroyLoop(Destroy(n.s, l, n.r), l, n.it, fuel - 1)

L_deleteAll(s, l) ==
    LET s1 == DestroyLoop(s, l, L_iterator(s, l), MaxNodes)
    IN  IF s1.status # "ok" THEN s1 ELSE L_removeAll(s1, l)

RECURSIVE FindFirstLoop(_, _, _, _, _)
FindFirstLoop(s, it, selector, index, fuel) ==
    IF ~(I_hasNext(it) /\ index = -1) THEN Result(s, index)
    ELSE IF fuel = 0 THEN Result(Hang(s), index)
    ELSE LET n == I_next(s, it)
         IN  IF n.s.status # "ok" THEN Result(n.s, index)
             ELSE FindFirstLoop(n.s, n.it, selector,
                                IF Apply(selector, n.r) THEN n.it.index
                                                        ELSE index, fuel - 1)

L_findFirst(s, l, selector) ==
    FindFirstLoop(s, L_iterator(s, l), selector, -1, MaxNodes)

L_firstIndexOf(s, l, value) ==
    L_findFirst(s, l, C_predicate("equality", StackValue))

RECURSIVE FindLastLoop(_, _, _, _, _)
FindLastLoop(s, it, selector, index, fuel) ==
    IF ~I_hasNext(it) THEN Result(s, index)
    ELSE IF fuel = 0 THEN Result(Hang(s), index)
    ELSE LET n == I_next(s, it)
         IN  IF n.s.status # "ok" THEN Result(n.s, index)
             ELSE FindLastLoop(n.s, n.it, selector,
                               IF Apply(selector, n.r) THEN n.it.index
                                                       ELSE index, fuel - 1)

\* l_findLast with the loop condition of l_findFirst
L_findLast_stopAtMatch(s, l, selector) ==
    FindFirstLoop(s, L_iterator(s, l), selector, -1, MaxNodes)

L_findLast(s, l, selector) ==
    FindLastLoop(s, L_iterator(s, l), selector, -1, MaxNodes)

L_lastIndexOf(s, l, value) ==
    L_findLast(s, l, C_predicate("equality", StackValue))

RECURSIVE MatchesLoop(_, _, _, _, _)
MatchesLoop(s, it, selector, contains, fuel) ==
    IF ~(I_hasNext(it) /\ ~contains) THEN Result(s, contains)
    ELSE IF fuel = 0 THEN Result(Hang(s), contains)
    ELSE LET n == I_next(s, it)
         IN  IF n.s.status # "ok" THEN Result(n.s, contains)
             ELSE MatchesLoop(n.s, n.it, selector,
                              contains \/ Apply(selector, n.r), fuel - 1)

L_matches(s, l, selector) ==
    MatchesLoop(s, L_iterator(s, l), selector, FALSE, MaxNodes)

L_contains(s, l, value) ==
    L_matches(s, l, C_predicate("equality", StackValue))

(***************************************************************************)
(* Arrays and comparison.  An array is a sequence; its first cell is       *)
(* array[1].  l_toArray allocates size cells and fills them from an        *)
(* iterator; a store past the end of the array is an access out of bounds. *)
(***************************************************************************)
RECURSIVE ToArrayLoop(_, _, _, _, _)
ToArrayLoop(s, it, array, i, fuel) ==
    IF ~I_hasNext(it) THEN Result(s, array)
    ELSE IF fuel = 0 THEN Result(Hang(s), array)
    ELSE LET n == I_next(s, it)
         IN  IF n.s.status # "ok" THEN Result(n.s, array)
             ELSE IF i + 1 > Len(array) THEN Result(Trap(s), array)
             ELSE ToArrayLoop(n.s, n.it, [array EXCEPT ![i + 1] = n.r],
                              i + 1, fuel - 1)

L_toArray(s, l, junk) ==
    ToArrayLoop(s, L_iterator(s, l),
                [k \in 1..s.size[l] |-> junk], 0, MaxNodes)

RECURSIVE L_addArray(_, _, _, _)
L_addArray(s, l, array, n) ==
    IF n <= 0 \/ s.status # "ok" THEN s
    ELSE LET s1 == L_addArray(s, l, array, n - 1)
         IN  IF s1.status # "ok" THEN s1
             ELSE L_addLast(s1, l, array[n], NewNode(s1))

L_create(s, l) ==
    [s EXCEPT !.head[l] = NULL, !.tail[l] = NULL, !.size[l] = 0,
              !.destructor[l] = "destructor"]

\* l_fromArray copying one cell too few
L_fromArray_short(s, l, array, n) ==
    L_addArray(L_create(s, l), l, array, n - 1)

L_fromArray(s, l, array, n) == L_addArray(L_create(s, l), l, array, n)

\* l_removeAll, then free(list): the struct is gone, and the slot of the
\* model is left as l_create fills it for the next list
L_clear(s, l) ==
    LET s1 == L_removeAll(s, l)
    IN  IF s1.status # "ok" THEN s1 ELSE L_create(s1, l)

(***************************************************************************)
(* Rendering.  A C string is the sequence of its characters; its           *)
(* terminator is not part of the sequence but takes one char of the buffer *)
(* that holds it.  strcpy and strcat write the text and a terminator: past *)
(* the end of the malloc'ed buffer that is undefined behaviour.  The       *)
(* caller's stringFunction is a table from element pointers to strings.    *)
(***************************************************************************)
MaxStr  == 2
Chars   == {"a", "b"}
Strings == UNION {[1..k -> Chars] : k \in 0..MaxStr}

\* strcpy(string, text) on the empty buffer and strcat(string, text)
StrCat(s, capacity, text) ==
    IF Len(s.string) + Len(text) + 1 > capacity THEN Trap(s)
    ELSE [s EXCEPT !.string = @ \o text]

RECURSIVE ToStringLoop(_, _, _, _, _, _)
ToStringLoop(s, l, capacity, it, stringFunction, fuel) ==
    IF ~I_hasNext(it) THEN s
    ELSE IF fuel = 0 THEN Hang(s)
    ELSE LET n == I_next(s, it)
             element == stringFunction[n.r]
             s1 == StrCat(n.s, capacity, element)
             s2 == IF n.it.index # s1.size[l] - 1
                   THEN StrCat(s1, capacity, <<",", " ">>)
                   ELSE s1
         IN  IF n.s.status # "ok" THEN n.s
             ELSE IF s1.status # "ok" THEN s1
             ELSE IF s2.status # "ok" THEN s2
             ELSE ToStringLoop(s2, l, capacity, n.it, stringFunction, fuel - 1)

L_toString(s, l, stringFunction, length) ==
    LET capacity == s.size[l] * (length + 2) + 1
        s1 == StrCat(s, capacity, <<"[">>)
        s2 == ToStringLoop(s1, l, capacity, L_iterator(s, l), stringFunction,
                           MaxNodes)
    IN  IF s1.status # "ok" THEN s1
        ELSE IF s2.status # "ok" THEN s2
        ELSE StrCat(s2, capacity, <<"]">>)

(***************************************************************************)
(* Mapping in place.  The events of a call record each application of the  *)
(* mapper, each destructor call and each store into a node, in the order   *)
(* the loop body makes them.                                               *)
(***************************************************************************)
RECURSIVE MapLoop(_, _, _, _)
MapLoop(s, it, mapper, fuel) ==
    IF ~I_hasNext(it) THEN s
    ELSE IF fuel = 0 THEN Hang(s)
    ELSE LET n == I_next(s, it)
             value == ApplyFunction(mapper, n.r)
             s1 == Event(n.s, "apply", n.r)
             s2 == Event(StoreValue(s1, n.it.current, value), "store", value)
         IN  IF n.s.status # "ok" THEN n.s
             ELSE MapLoop(s2, n.it, mapper, fuel - 1)

L_map(s, l, mapper) == MapLoop(s, L_iterator(s, l), mapper, MaxNodes)

RECURSIVE DMapLoop(_, _, _, _, _)
DMapLoop(s, l, it, mapper, fuel) ==
    IF ~I_hasNext(it) THEN s
    ELSE IF fuel = 0 THEN Hang(s)
    ELSE LET n == I_next(s, it)
             value == ApplyFunction(mapper, n.r)
             s1 == Event(n.s, "apply", n.r)
             s2 == Destroy(s1, l, LoadValue(s1, n.it.current))
             s3 == Event(StoreValue(s2, n.it.current, value), "store", value)
         IN  IF n.s.status # "ok" THEN n.s
             ELSE DMapLoop(s3, l, n.it, mapper, fuel - 1)

\* l_dmap with the loop of l_map: the destructor call is left out
L_dmap_noDestructor(s, l, mapper) ==
    MapLoop(s, L_iterator(s, l), mapper, MaxNodes)

L_dmap(s, l, mapper) == DMapLoop(s, l, L_iterator(s, l), mapper, MaxNodes)

(***************************************************************************)
(* Copying from list to list.  The loop of l_addAll and l_copy reads the   *)
(* source through an iterator while it appends to the destination.  When   *)
(* the two are one list with two or more elements the iterator never runs  *)
(* out: every append puts a node in front of it.  Such a loop has not      *)
(* ended when the cells of the model are used up.                          *)
(***************************************************************************)
RECURSIVE AppendLoop(_, _, _, _)
AppendLoop(s, dest, it, fuel) ==
    IF ~I_hasNext(it) THEN s
    ELSE IF fuel = 0 \/ FreeNodes(s) = {} THEN Hang(s)
    ELSE LET n == I_next(s, it)
             s1 == L_addLast(n.s, dest, n.r, NewNode(n.s))
         IN  IF n.s.status # "ok" THEN n.s
             ELSE IF s1.status # "ok" THEN s1
             ELSE AppendLoop(s1, dest, n.it, fuel - 1)

L_addAll(s, dest, src) == AppendLoop(s, dest, L_iterator(s, src), MaxNodes)

\* l_copy forgetting `copy->destructor = original->destructor`
L_copy_ownDestructor(s, copy, original) ==
    LET s1 == L_create(s, copy)
    IN  AppendLoop(s1, copy, L_iterator(s1, original), MaxNodes)

L_copy(s, copy, original) ==
    LET s1 == L_create(s, copy)
        s2 == AppendLoop(s1, copy, L_iterator(s1, original), MaxNodes)
    IN  IF s2.status # "ok" THEN s2
        ELSE [s2 EXCEPT !.destructor[copy] = s2.destructor[original]]

RECURSIVE EqualLoop(_, _, _, _, _)
EqualLoop(s, itr1, itr2, equal, fuel) ==
    IF ~(I_hasNext(itr1) /\ I_hasNext(itr2) /\ equal) THEN Result(s, equal)
    ELSE IF fuel = 0 THEN Result(Hang(s), equal)
    ELSE LET n1 == I_next(s, itr1)
             n2 == I_next(s, itr2)
         IN  IF n1.s.status # "ok" THEN Result(n1.s, equal)
             ELSE IF n2.s.status # "ok" THEN Result(n2.s, equal)
             ELSE EqualLoop(s, n1.it, n2.it, equal /\ n1.r = n2.r, fuel - 1)

L_equal(s, list1, list2) ==
    EqualLoop(s, L_iterator(s, list1), L_iterator(s, list2),
              s.size[list1] = s.size[list2], MaxNodes)

(***************************************************************************)
(* What a list holds, read off the heap: the cells reached from head and   *)
(* the values in them.                                                     *)
(***************************************************************************)
Elems(s, l) == [k \in 1..Len(Cells(s, l)) |-> s.val[Cells(s, l)[k]]]

\* a proper list: size live cells, all different, the last one the tail
WellFormed(s, l) ==
    LET c == Cells(s, l)
    IN  /\ Len(c) = s.size[l]
        /\ \A k \in 1..Len(c) : c[k] \in s.alloc
        /\ \A j, k \in 1..Len(c) : j # k => c[j] # c[k]
        /\ IF c = <<>> THEN s.head[l] = NULL /\ s.tail[l] = NULL
                       ELSE s.tail[l] = c[Len(c)]

(***************************************************************************)
(* The program: a caller that owns two lists made by l_create and at most  *)
(* one iterator, over list 1, and calls the functions in any order.  While *)
(* the iterator exists it is the only mutator of list 1.  ret and arr hold *)
(* what the last call returned.                                            *)
(***************************************************************************)
Junk == Values \cup {NULL}

Indices == -2..(MaxLen + 1)

Call(op, index, value, sel) ==
    [op |-> op, index |-> index, value |-> value, sel |-> sel]

NoItr == [next |-> NULL, current |-> NULL, previous |-> NULL,
          list |-> 1, index |-> -1]

Bool(b) == IF b THEN 1 ELSE 0

Readers == {1, 2}
NoReader == [it |-> NoItr, open |-> FALSE, seen |-> <<>>]

Pure(seq) == [pure |-> TRUE, seq |-> seq]
Tainted == [pure |-> FALSE, seq |-> <<>>]

Init ==
    /\ val = [n \in Nodes |-> NULL]
    /\ nxt = [n \in Nodes |-> NULL]
    /\ alloc = {}
    /\ head = [l \in Lists |-> NULL]
    /\ tail = [l \in Lists |-> NULL]
    /\ size = [l \in Lists |-> 0]
    /\ destructor = [l \in Lists |-> "destructor"]
    /\ destroyed = <<>>
    /\ events = <<>>
    /\ string = <<>>
    /\ status = "ok"
    /\ itr = NoItr
    /\ itrOpen = FALSE
    /\ pending = FALSE
    /\ ret = NULL
    /\ arr = <<>>
    /\ readers = [i \in Readers |-> NoReader]
    /\ copied = FALSE
    /\ added = Pure(<<>>)
    /\ last = Call("l_create", 0, NULL, {})

Running == status = "ok"
Mutable == Running /\ ~itrOpen
Room(l) == size[l] < MaxLen /\ FreeNodes(World) # {}

\* the call `call` on list 1 ends in s and returns r
Mutate(s, r, call) ==
    /\ Commit(s)
    /\ ret' = r
    /\ arr' = <<>>
    /\ last' = call
    /\ added' = Tainted
    /\ UNCHANGED <<itr, itrOpen, pending, copied, readers>>

\* a call that is not meant to change list 1
Query(s, r, a, call) ==
    /\ Commit(s)
    /\ ret' = r
    /\ arr' = a
    /\ last' = call
    /\ UNCHANGED <<itr, itrOpen, pending, copied, readers, added>>

AddFirst ==
    /\ Mutable /\ Room(1)
    /\ \E value \in Values :
          Mutate(L_addFirst(World, 1, value, NewNode(World)), NULL,
                 Call("l_addFirst", 0, value, {}))

AddLastTo(l) ==
    /\ IF l = 1 THEN Mutable ELSE Running
    /\ Room(l)
    /\ \E value \in Values :
          /\ Commit(L_addLast(World, l, value, NewNode(World)))
          /\ ret' = NULL
          /\ arr' = <<>>
          /\ last' = Call("l_addLast", l, value, {})
          /\ added' = IF l = 1 /\ added.pure
                      THEN Pure(Append(added.seq, value))
                      ELSE added
          /\ UNCHANGED <<itr, itrOpen, pending, copied, readers>>

AddLast == AddLastTo(1)

\* an index out of range needs no room: nothing is allocated
Add ==
    /\ Mutable
    /\ \E value \in Values, index \in Indices :
          /\ Room(1) \/ index < 0 \/ index > size[1]
          /\ Mutate(L_add(World, 1, value, index,
                          IF FreeNodes(World) = {} THEN NULL
                          ELSE NewNode(World)),
                    NULL, Call("l_add", index, value, {}))

Set ==
    /\ Mutable
    /\ \E value \in Values, index \in Indices :
          LET res == L_set(World, 1, value, index)
          IN  Mutate(res.s, res.r, Call("l_set", index, value, {}))

SetFirst ==
    /\ Mutable
    /\ \E value \in Values :
          LET res == L_setFirst(World, 1, value)
          IN  Mutate(res.s, res.r, Call("l_setFirst", 0, value, {}))

SetLast ==
    /\ Mutable
    /\ \E value \in Values :
          LET res == L_setLast(World, 1, value)
          IN  Mutate(res.s, res.r, Call("l_setLast", 0, value, {}))

Get ==
    /\ Running
    /\ \E index \in Indices :
          LET res == L_get(World, 1, index)
          IN  Query(res.s, res.r, <<>>, Call("l_get", index, NULL, {}))

GetFirst ==
    /\ Running
    /\ LET res == L_getFirst(World, 1)
       IN  Query(res.s, res.r, <<>>, Call("l_getFirst", 0, NULL, {}))

GetLast ==
    /\ Running
    /\ LET res == L_getLast(World, 1)
       IN  Query(res.s, res.r, <<>>, Call("l_getLast", 0, NULL, {}))

RemoveFirst ==
    /\ Mutable
    /\ \E junk \in Junk :
          LET res == L_removeFirst(World, 1, junk)
          IN  Mutate(res.s, res.r, Call("l_removeFirst", 0, NULL, {}))

RemoveLast ==
    /\ Mutable
    /\ \E junk \in Junk :
          LET res == L_removeLast(World, 1, junk)
          IN  Mutate(res.s, res.r, Call("l_removeLast", 0, NULL, {}))

Remove ==
    /\ Mutable
    /\ \E index \in Indices, junk \in Junk :
          LET res == L_remove(World, 1, index, junk)
          IN  Mutate(res.s, res.r, Call("l_remove", index, NULL, {}))

RemoveAll ==
    /\ Mutable
    /\ Commit(L_removeAll(World, 1))
    /\ ret' = NULL
    /\ arr' = <<>>
    /\ last' = Call("l_removeAll", 0, NULL, {})
    /\ added' = IF status' = "ok" THEN Pure(<<>>) ELSE Tainted
    /\ UNCHANGED <<itr, itrOpen, pending, copied, readers>>

DeleteFirst ==
    /\ Mutable
    /\ \E junk \in Junk :
          Mutate(L_deleteFirst(World, 1, junk), NULL,
                 Call("l_deleteFirst", 0, NULL, {}))

DeleteLast ==
    /\ Mutable
    /\ \E junk \in Junk :
          Mutate(L_deleteLast(World, 1, junk), NULL,
                 Call("l_deleteLast", 0, NULL, {}))

Delete ==
    /\ Mutable
    /\ \E index \in Indices, junk \in Junk :
          Mutate(L_delete(World, 1, index, junk), NULL,
                 Call("l_delete", index, NULL, {}))

DeleteIf ==
    /\ Mutable
    /\ \E sel \in SUBSET Values :
          Mutate(L_deleteIf(World, 1, C_predicate("member", sel)), NULL,
                 Call("l_deleteIf", 0, NULL, sel))

DeleteAll ==
    /\ Mutable
    /\ Commit(L_deleteAll(World, 1))
    /\ ret' = NULL
    /\ arr' = <<>>
    /\ last' = Call("l_deleteAll", 0, NULL, {})
    /\ added' = IF status' = "ok" THEN Pure(<<>>) ELSE Tainted
    /\ UNCHANGED <<itr, itrOpen, pending, copied, readers>>

RemoveIf ==
    /\ Mutable
    /\ \E sel \in SUBSET Values :
          Mutate(L_removeIf(World, 1, C_predicate("member", sel)), NULL,
                 Call("l_removeIf", 0, NULL, sel))

RemoveValue ==
    /\ Mutable
    /\ \E value \in Values :
          Mutate(L_removeValue(World, 1, value), NULL,
                 Call("l_removeValue", 0, value, {}))

FirstIndexOf ==
    /\ Running
    /\ \E value \in Values :
          LET res == L_firstIndexOf(World, 1, value)
          IN  Query(res.s, res.r, <<>>, Call("l_firstIndexOf", 0, value, {}))

LastIndexOf ==
    /\ Running
    /\ \E value \in Values :
          LET res == L_lastIndexOf(World, 1, value)
          IN  Query(res.s, res.r, <<>>, Call("l_lastIndexOf", 0, value, {}))

FindFirst ==
    /\ Running
    /\ \E sel \in SUBSET Values :
          LET res == L_findFirst(World, 1, C_predicate("member", sel))
          IN  Query(res.s, res.r, <<>>, Call("l_findFirst", 0, NULL, sel))

FindLast ==
    /\ Running
    /\ \E sel \in SUBSET Values :
          LET res == L_findLast(World, 1, C_predicate("member", sel))
          IN  Query(res.s, res.r, <<>>, Call("l_findLast", 0, NULL, sel))

Matches ==
    /\ Running
    /\ \E sel \in SUBSET Values :
          LET res == L_matches(World, 1, C_predicate("member", sel))
          IN  Query(res.s, Bool(res.r), <<>>, Call("l_matches", 0, NULL, sel))

Contains ==
    /\ Running
    /\ \E value \in Values :
          LET res == L_contains(World, 1, value)
          IN  Query(res.s, Bool(res.r), <<>>, Call("l_contains", 0, value, {}))

Iterator ==
    /\ Mutable
    /\ itr' = L_iterator(World, 1)
    /\ itrOpen' = TRUE
    /\ pending' = FALSE
    /\ ret' = NULL
    /\ arr' = <<>>
    /\ last' = Call("l_iterator", 0, NULL, {})
    /\ destroyed' = <<>>
    /\ events' = <<>>
    /\ string' = <<>>
    /\ UNCHANGED <<val, nxt, alloc, head, tail, size, destructor, status,
                   copied, readers, added>>

HasNext ==
    /\ Running /\ itrOpen
    /\ Query(World, Bool(I_hasNext(itr)), <<>>, Call("i_hasNext", 0, NULL, {}))

INext ==
    /\ Running /\ itrOpen
    /\ LET res == I_next(World, itr)
       IN  /\ Commit(res.s)
           /\ itr' = res.it
           /\ ret' = res.r
           /\ arr' = <<>>
           /\ pending' = (pending \/ (I_hasNext(itr) /\ res.s.status = "ok"))
           /\ last' = Call("i_next", 0, NULL, {})
           /\ UNCHANGED <<itrOpen, copied, readers, added>>

IRemove ==
    /\ Running /\ itrOpen
    /\ LET res == I_remove(World, itr)
       IN  /\ Commit(res.s)
           /\ itr' = Renumber(res.it, res.s)
           /\ ret' = res.r
           /\ arr' = <<>>
           /\ pending' = (pending /\ res.s.size = size /\ res.s.alloc = alloc)
           /\ last' = Call("i_remove", 0, NULL, {})
           /\ added' = Tainted
           /\ UNCHANGED <<itrOpen, copied, readers>>

IDelete ==
    /\ Running /\ itrOpen
    /\ LET res == I_delete(World, itr)
       IN  /\ Commit(res.s)
           /\ itr' = Renumber(res.it, res.s)
           /\ ret' = NULL
           /\ arr' = <<>>
           /\ pending' = (pending /\ res.s.size = size /\ res.s.alloc = alloc)
           /\ last' = Call("i_delete", 0, NULL, {})
           /\ added' = Tainted
           /\ UNCHANGED <<itrOpen, copied, readers>>

\* The read-only program: iterator i over list 1 is made, asked and
\* advanced, and freed; last.index holds i.
OpenReader(i) ==
    /\ Running
    /\ ~readers[i].open
    /\ readers' = [readers EXCEPT ![i] = [it |-> L_iterator(World, 1),
                                          open |-> TRUE, seen |-> <<>>]]
    /\ Commit(World)
    /\ ret' = NULL
    /\ arr' = <<>>
    /\ last' = Call("l_iterator", i, NULL, {})
    /\ UNCHANGED <<itr, itrOpen, pending, copied, added>>

ReaderHasNext(i) ==
    /\ Running
    /\ readers[i].open
    /\ Commit(World)
    /\ ret' = Bool(I_hasNext(readers[i].it))
    /\ arr' = <<>>
    /\ last' = Call("i_hasNext", i, NULL, {})
    /\ UNCHANGED <<itr, itrOpen, pending, readers, copied, added>>

ReaderNext(i) ==
    /\ Running
    /\ readers[i].open
    /\ LET res == I_next(World, readers[i].it)
       IN  /\ Commit(res.s)
           /\ readers' = [readers EXCEPT
                            ![i].it = res.it,
                            ![i].seen = IF I_hasNext(readers[i].it)
                                        THEN Append(@, res.r) ELSE @]
           /\ ret' = res.r
           /\ arr' = <<>>
           /\ last' = Call("i_next", i, NULL, {})
           /\ UNCHANGED <<itr, itrOpen, pending, copied, added>>

CloseReader(i) ==
    /\ Running
    /\ readers[i].open
    /\ readers' = [readers EXCEPT ![i] = NoReader]
    /\ Commit(World)
    /\ ret' = NULL
    /\ arr' = <<>>
    /\ last' = Call("free", i, NULL, {})
    /\ UNCHANGED <<itr, itrOpen, pending, copied, added>>

\* list 1 grows while no iterator reads it
AddLastUnread ==
    /\ \A i \in Readers : ~readers[i].open
    /\ AddLast

\* free(itr), as the list functions do when they are done with an iterator
FreeIterator ==
    /\ Running /\ itrOpen
    /\ itr' = NoItr
    /\ itrOpen' = FALSE
    /\ pending' = FALSE
    /\ ret' = NULL
    /\ arr' = <<>>
    /\ last' = Call("free", 0, NULL, {})
    /\ destroyed' = <<>>
    /\ events' = <<>>
    /\ string' = <<>>
    /\ UNCHANGED <<val, nxt, alloc, head, tail, size, destructor, status,
                   copied, readers, added>>

ToArray ==
    /\ Running
    /\ \E junk \in Junk :
          LET res == L_toArray(World, 1, junk)
          IN  Query(res.s, NULL, res.r, Call("l_toArray", 0, NULL, {}))

\* list 2 = l_fromArray(l_toArray(list 1), list 1->size), once the list that
\* list 2 referred to has been emptied
FromArray ==
    /\ Running
    /\ size[2] = 0 /\ head[2] = NULL
    /\ Cardinality(FreeNodes(World)) >= size[1]
    /\ \E junk \in Junk :
          LET res == L_toArray(World, 1, junk)
              s2  == IF res.s.status # "ok" THEN res.s
                     ELSE L_fromArray(res.s, 2, res.r, size[1])
          IN  Query(s2, NULL, res.r, Call("l_fromArray", 0, NULL, {}))

Equal ==
    /\ Running
    /\ LET res == L_equal(World, 1, 2)
       IN  Query(res.s, Bool(res.r), <<>>, Call("l_equal", 0, NULL, {}))

RemoveAll2 ==
    /\ Running
    /\ size[2] # 0
    /\ Query(L_removeAll(World, 2), NULL, <<>>, Call("l_removeAll", 2, NULL, {}))

\* the graph of a table, the form in which last.sel records a mapper
Graph(f) == {<<v, f[v]>> : v \in DOMAIN f}

Map ==
    /\ Mutable
    /\ \E f \in [Values -> Values] :
          Mutate(L_map(World, 1, C_function("table", f)), NULL,
                 Call("l_map", 0, NULL, Graph(f)))

DMap ==
    /\ Mutable
    /\ \E f \in [Values -> Values] :
          Mutate(L_dmap(World, 1, C_function("table", f)), NULL,
                 Call("l_dmap", 0, NULL, Graph(f)))

LToString ==
    /\ Running
    /\ \E length \in 0..MaxStr, stringFunction \in [Values -> Strings] :
          Query(L_toString(World, 1, stringFunction, length), NULL, <<>>,
                Call("l_toString", length, NULL, Graph(stringFunction)))

\* the caller points list 1's destructor field at another function
SetDestructor ==
    /\ Mutable
    /\ \E d \in Destructors \ {destructor[1]} :
          /\ destructor' = [destructor EXCEPT ![1] = d]
          /\ destroyed' = <<>>
          /\ events' = <<>>
          /\ string' = <<>>
          /\ ret' = NULL
          /\ arr' = <<>>
          /\ last' = Call("destructor", 0, NULL, {})
          /\ UNCHANGED <<val, nxt, alloc, head, tail, size, status, itr,
                         itrOpen, pending, copied, readers, added>>

\* list 2 = l_copy(list 1), once the list that list 2 referred to has been
\* emptied
Copy ==
    /\ Running
    /\ size[2] = 0 /\ head[2] = NULL
    /\ Cardinality(FreeNodes(World)) >= size[1]
    /\ Commit(L_copy(World, 2, 1))
    /\ ret' = NULL
    /\ arr' = <<>>
    /\ last' = Call("l_copy", 2, NULL, {})
    /\ copied' = TRUE
    /\ UNCHANGED <<itr, itrOpen, pending, readers, added>>

\* l_clear(list 2): the copy is given up
Clear2 ==
    /\ Running
    /\ copied
    /\ Commit(L_clear(World, 2))
    /\ ret' = NULL
    /\ arr' = <<>>
    /\ last' = Call("l_clear", 2, NULL, {})
    /\ copied' = FALSE
    /\ UNCHANGED <<itr, itrOpen, pending, readers, added>>

\* l_addAll(dest, src); last.index holds dest and last.value holds src
AddAll(dest, src) ==
    /\ Running
    /\ dest # src => /\ size[dest] + size[src] <= MaxLen
                     /\ Cardinality(FreeNodes(World)) >= size[src]
    /\ Commit(L_addAll(World, dest, src))
    /\ ret' = NULL
    /\ arr' = <<>>
    /\ last' = Call("l_addAll", dest, src, {})
    /\ added' = IF dest = 1 THEN Tainted ELSE added
    /\ UNCHANGED <<itr, itrOpen, pending, copied, readers>>

\* l_removeFirst on list 2
RemoveFirst2 ==
    /\ Running
    /\ size[2] # 0
    /\ \E junk \in Junk :
          LET res == L_removeFirst(World, 2, junk)
          IN  Query(res.s, res.r, <<>>, Call("l_removeFirst", 2, NULL, {}))

Next ==
    \/ AddFirst \/ AddLast \/ Add
    \/ Set \/ SetLast \/ Get \/ GetLast
    \/ RemoveFirst \/ RemoveLast \/ Remove \/ RemoveAll
    \/ RemoveIf \/ RemoveValue
    \/ FirstIndexOf \/ LastIndexOf \/ Contains
    \/ Iterator \/ HasNext \/ INext \/ IRemove \/ FreeIterator

Spec == Init /\ [][Next]_vars

(***************************************************************************)
(* The array program: lists built with l_addLast alone, copied through an  *)
(* array and compared.                                                     *)
(***************************************************************************)
NextArr ==
    \/ \E l \in Lists : AddLastTo(l)
    \/ ToArray \/ FromArray \/ Equal \/ RemoveAll2

SpecArr == Init /\ [][NextArr]_vars

(***************************************************************************)
(* The positional program: the functions that address list 1 by position   *)
(* or by a caller's predicate, with no iterator of the caller's.           *)
(***************************************************************************)
NextPos ==
    \/ AddFirst \/ AddLast \/ Add
    \/ Set \/ SetFirst \/ SetLast \/ Get \/ GetFirst \/ GetLast
    \/ RemoveFirst \/ RemoveLast \/ Remove
    \/ FindFirst \/ FindLast \/ Matches

SpecPos == Init /\ [][NextPos]_vars

(***************************************************************************)
(* The removal program: every function that takes elements out of list 1,  *)
(* with and without the destructor, directly and through an iterator.      *)
(***************************************************************************)
NextDel ==
    \/ AddFirst \/ AddLast
    \/ RemoveFirst \/ RemoveLast \/ Remove \/ RemoveIf \/ RemoveAll
    \/ DeleteFirst \/ DeleteLast \/ Delete \/ DeleteIf \/ DeleteAll
    \/ Iterator \/ INext \/ IRemove \/ IDelete \/ FreeIterator

SpecDel == Init /\ [][NextDel]_vars

(***************************************************************************)
(* The mapping program: list 1 grows and shrinks at its ends and is mapped *)
(* in place, with and without the destructor.                              *)
(***************************************************************************)
NextMap ==
    \/ AddFirst \/ AddLast \/ RemoveFirst \/ Map \/ DMap

SpecMap == Init /\ [][NextMap]_vars

(***************************************************************************)
(* The read-only program: list 1 is built with l_addLast; then iterators   *)
(* over it are made, asked, advanced and freed in any interleaving, and    *)
(* nothing else touches the list while one of them exists.                 *)
(***************************************************************************)
NextRead ==
    \/ AddLastUnread
    \/ \E i \in Readers :
          OpenReader(i) \/ ReaderHasNext(i) \/ ReaderNext(i) \/ CloseReader(i)

SpecRead == Init /\ [][NextRead]_vars

(***************************************************************************)
(* The copy program: list 1 is built with l_addLast and given a            *)
(* destructor; list 2 is made from it by l_copy, appended to and cleared,  *)
(* and list 1 grows on once the copy is given up.                          *)
(***************************************************************************)
NextCopy ==
    \/ ~copied /\ AddLast
    \/ SetDestructor \/ Copy
    \/ copied /\ AddLastTo(2)
    \/ Clear2

SpecCopy == Init /\ [][NextCopy]_vars

(***************************************************************************)
(* The two-list program: lists built with l_addLast and appended to each   *)
(* other and to themselves with l_addAll; the second list also shrinks.    *)
(***************************************************************************)
NextTwo ==
    \/ \E l \in Lists : AddLastTo(l)
    \/ \E dest, src \in Lists : AddAll(dest, src)
    \/ RemoveFirst2 \/ RemoveAll2

SpecTwo == Init /\ [][NextTwo]_vars

(***************************************************************************)
(* The core program: the positional functions and one iterator.            *)
(***************************************************************************)
NextCore ==
    \/ AddFirst \/ AddLast \/ Add \/ Set
    \/ RemoveFirst \/ RemoveLast \/ Remove \/ RemoveAll
    \/ Iterator \/ INext \/ IRemove \/ FreeIterator

SpecCore == Init /\ [][NextCore]_vars

(***************************************************************************)
(* The sequence program: list 1 changed by position only, with indices in  *)
(* range and out of range, and never through an iterator.                  *)
(***************************************************************************)
NextSeq ==
    \/ AddFirst \/ AddLast \/ Add \/ Set
    \/ RemoveFirst \/ RemoveLast \/ Remove \/ Delete \/ RemoveAll

SpecSeq == Init /\ [][NextSeq]_vars

(***************************************************************************)
(* The rendering program: list 1 grows and shrinks at its ends and is      *)
(* rendered with any string function and any declared length.              *)
(***************************************************************************)
NextStr ==
    \/ AddLast \/ RemoveFirst \/ LToString

SpecStr == Init /\ [][NextStr]_vars

(***************************************************************************)
(* Properties.                                                             *)
(***************************************************************************)
Elems1 == Elems(World, 1)
Elems2 == Elems(World, 2)
WellFormed1 == WellFormed(World, 1)
Heap == <<val, nxt, alloc, head, tail, size>>

Keep(seq, keep) == SelectSeq(seq, LAMBDA v : v \in keep)

\* C1: after any sequence of l_addFirst, l_addLast, l_add, l_set,
\* l_removeFirst, l_removeLast, l_remove, l_removeAll and i_next / i_remove
\* through one iterator, head is NULL iff tail is NULL iff size is 0, and
\* following next from head reaches tail after size - 1 steps and NULL after
\* size steps.
C1_HeadTailSize ==
    status = "ok" =>
        /\ (head[1] = NULL) <=> (size[1] = 0)
        /\ (tail[1] = NULL) <=> (size[1] = 0)
        /\ size[1] >= 0
        /\ size[1] > 0 => Walk(World, head[1], size[1] - 1) = tail[1]
        /\ Walk(World, head[1], size[1]) = NULL

\* C2: l_removeIf on a proper list returns, leaving exactly the elements for
\* which the predicate is false, in their order, and size their number.
C2_RemoveIfFilters ==
    [][(last'.op = "l_removeIf" /\ WellFormed1) =>
          /\ status' = "ok"
          /\ Elems1' = Keep(Elems1, Values \ last'.sel)
          /\ size'[1] = Len(Keep(Elems1, Values \ last'.sel))]_vars

\* C3: i_remove called when current is the head and previous is none
\* completes without undefined behaviour, makes head the iterator's next,
\* decrements size, clears current and returns the old head's value.
C3_RemoveAtHead ==
    [][(last'.op = "i_remove" /\ itr.current # NULL
            /\ itr.current = head[1] /\ itr.previous = NULL) =>
          /\ status' = "ok"
          /\ head'[1] = itr'.next
          /\ size'[1] = size[1] - 1
          /\ itr'.current = NULL
          /\ ret' = val[itr.current]]_vars

\* C4: when i_remove removes the tail, tail afterwards is the iterator's
\* previous node (none if the list became empty), never the removed node.
C4_RemoveAtTail ==
    [][(last'.op = "i_remove" /\ itr.current # NULL
            /\ itr.current = tail[1]) =>
          /\ status' = "ok"
          /\ tail'[1] = itr'.previous
          /\ tail'[1] = NULL \/ tail'[1] \in alloc']_vars

\* C5: i_remove removes only when a successful i_next has happened since the
\* iterator was created and since the last removal; otherwise it returns
\* NULL and leaves the list as it was; a removal uses up the i_next that
\* allowed it, so no element returned by i_next is removed twice.
C5_SingleConsume ==
    [][last'.op = "i_remove" =>
          /\ ~pending => /\ status' = "ok"
                         /\ ret' = NULL
                         /\ Heap' = Heap
          /\ (pending /\ status' = "ok") =>
                         /\ ~pending'
                         /\ itr'.current = NULL
                         /\ ret' # NULL
                         /\ size'[1] = size[1] - 1]_vars

C5_Witness ==
    /\ last.op = "i_remove"
    /\ status = "ok"
    /\ ret = NULL
    /\ itr.index >= 0
    /\ itr.current = NULL
    /\ size[1] > 0

\* C6: l_removeValue(L, v) on a proper list removes every element identical
\* to v and no other, keeping the order of the rest.
C6_RemoveValue ==
    [][(last'.op = "l_removeValue" /\ WellFormed1) =>
          /\ status' = "ok"
          /\ Elems1' = Keep(Elems1, Values \ {last'.value})]_vars

\* C7: on a proper list l_contains(L, v) is true iff some element is
\* identical to v, and l_firstIndexOf / l_lastIndexOf return the smallest /
\* largest index holding v, or -1 when there is none.
Positions(seq, v) == {k \in 1..Len(seq) : seq[k] = v}

FirstPos(seq, v) ==
    IF Positions(seq, v) = {} THEN -1 ELSE Min(Positions(seq, v)) - 1

LastPos(seq, v) ==
    IF Positions(seq, v) = {} THEN -1
    ELSE (CHOOSE k \in Positions(seq, v) :
              \A j \in Positions(seq, v) : j <= k) - 1

C7_Search ==
    [][WellFormed1 =>
          /\ last'.op = "l_contains" =>
                ret' = Bool(Positions(Elems1, last'.value) # {})
          /\ last'.op = "l_firstIndexOf" =>
                ret' = FirstPos(Elems1, last'.value)
          /\ last'.op = "l_lastIndexOf" =>
                ret' = LastPos(Elems1, last'.value)]_vars

\* C8: after v1..vn have been appended to an empty list with l_addLast,
\* l_toArray returns <<v1, ..., vn>> and leaves the list as it was.
C8_ToArrayOrder ==
    [][(last'.op = "l_toArray" /\ added.pure) =>
          /\ status' = "ok"
          /\ arr' = added.seq
          /\ Len(arr') = size[1]
          /\ Heap' = Heap]_vars

C8_Witness ==
    /\ last.op = "l_toArray"
    /\ added.pure
    /\ Len(arr) >= 2
    /\ arr[1] # arr[2]

\* C9: l_fromArray(l_toArray(L), size of L) is l_equal to L, for the empty
\* list too; l_equal(a, b) holds iff a and b have the same length and the
\* same values at the same positions.
C9_RoundTrip ==
    /\ last.op = "l_fromArray" =>
          /\ status = "ok"
          /\ L_equal(World, 1, 2).s.status = "ok"
          /\ L_equal(World, 1, 2).r
    /\ status = "ok" =>
          (L_equal(World, 1, 2).r <=>
              /\ Len(Elems1) = Len(Elems2)
              /\ \A k \in 1..Len(Elems1) : Elems1[k] = Elems2[k])

C9_Witness ==
    /\ last.op = "l_fromArray"
    /\ size[2] >= 2
    /\ Elems2[1] # Elems2[2]

\* C10: l_remove with index < 0 or index >= size leaves size, head, tail and
\* every element as they were.
C10_RemoveOutOfRange ==
    [][(last'.op = "l_remove"
            /\ (last'.index < 0 \/ last'.index >= size[1])) =>
          /\ status' = "ok"
          /\ Heap' = Heap]_vars

C10_Witness ==
    /\ last.op = "l_remove"
    /\ last.index >= size[1]
    /\ size[1] > 0
    /\ WellFormed1

\* C11: l_removeFirst and l_removeLast on an empty list, and l_remove with an
\* index out of range, return NULL and leave size as it was.
C11_RemoveNothingReturnsNull ==
    [][(\/ last'.op \in {"l_removeFirst", "l_removeLast"} /\ size[1] = 0
        \/ last'.op = "l_remove"
               /\ (last'.index < 0 \/ last'.index >= size[1])) =>
          /\ status' = "ok"
          /\ ret' = NULL
          /\ size' = size]_vars

\* C12: l_add with index < 0 or index > size inserts nothing: size, head,
\* tail and every node are as they were.
C12_AddOutOfRange ==
    [][(last'.op = "l_add"
            /\ (last'.index < 0 \/ last'.index > size[1])) =>
          /\ status' = "ok"
          /\ Heap' = Heap]_vars

C12_Witness ==
    /\ last.op = "l_add"
    /\ last.index > size[1]
    /\ size[1] = MaxLen
    /\ WellFormed1

Insert(seq, v, i) == SubSeq(seq, 1, i) \o <<v>> \o SubSeq(seq, i + 1, Len(seq))

\* C13: on a list of n elements, l_add(L, v, i) with 0 <= i <= n leaves
\* L[0..i-1], v, L[i..n-1] with size n + 1, head at the first and tail at
\* the last node; l_addFirst is the case i = 0 and l_addLast the case i = n.
C13_AddInRange ==
    [][(/\ last'.op \in {"l_add", "l_addFirst", "l_addLast"}
        /\ WellFormed1
        /\ last'.op = "l_add" => last'.index \in 0..size[1]) =>
          LET i == CASE last'.op = "l_addFirst" -> 0
                     [] last'.op = "l_addLast" -> size[1]
                     [] OTHER -> last'.index
          IN  /\ status' = "ok"
              /\ WellFormed1'
              /\ size'[1] = size[1] + 1
              /\ Elems1' = Insert(Elems1, last'.value, i)]_vars

C13_Witness ==
    /\ last.op = "l_add"
    /\ last.index = 1
    /\ size[1] = MaxLen
    /\ WellFormed1
    /\ Elems1[2] = last.value
    /\ Elems1[1] # Elems1[2]
    /\ Elems1[3] # Elems1[2]

Drop(seq, i) == SubSeq(seq, 1, i) \o SubSeq(seq, i + 2, Len(seq))

\* C14: on a non-empty list of n elements, l_remove(L, i) with 0 <= i < n
\* returns L[i] and leaves the other elements in order, size n - 1, head
\* and tail at the ends; l_removeFirst is the case i = 0 and l_removeLast
\* the case i = n - 1; the destructor is not called.
C14_RemoveInRange ==
    [][(/\ last'.op \in {"l_remove", "l_removeFirst", "l_removeLast"}
        /\ WellFormed1
        /\ size[1] > 0
        /\ last'.op = "l_remove" => last'.index \in 0..(size[1] - 1)) =>
          LET i == CASE last'.op = "l_removeFirst" -> 0
                     [] last'.op = "l_removeLast" -> size[1] - 1
                     [] OTHER -> last'.index
          IN  /\ status' = "ok"
              /\ ret' = Elems1[i + 1]
              /\ Elems1' = Drop(Elems1, i)
              /\ size'[1] = size[1] - 1
              /\ WellFormed1'
              /\ destroyed' = <<>>]_vars

C14_Witness ==
    /\ last.op = "l_remove"
    /\ last.index = 1
    /\ size[1] = MaxLen - 1
    /\ WellFormed1
    /\ ret # NULL
    /\ \A k \in 1..Len(Elems1) : Elems1[k] # ret

\* the position a call of the First / Last / indexed family addresses
Position(call, n) ==
    CASE call.op \in {"l_setFirst", "l_getFirst"} -> 0
      [] call.op \in {"l_setLast", "l_getLast"} -> n - 1
      [] OTHER -> call.index

\* C15: l_set(L, v, i) with 0 <= i < size stores v at position i, returns
\* the value that was there and changes no link, head, tail or size; on an
\* empty list or with i out of range it returns NULL and changes nothing;
\* l_setFirst is l_set at 0 and l_setLast is l_set at size - 1.
C15_Set ==
    [][(/\ last'.op \in {"l_set", "l_setFirst", "l_setLast"}
        /\ WellFormed1) =>
          LET i == Position(last', size[1])
          IN  /\ status' = "ok"
              /\ IF i \in 0..(size[1] - 1)
                 THEN /\ ret' = Elems1[i + 1]
                      /\ Elems1' = [Elems1 EXCEPT ![i + 1] = last'.value]
                      /\ <<nxt, alloc, head, tail, size>>'
                            = <<nxt, alloc, head, tail, size>>
                 ELSE /\ ret' = NULL
                      /\ Heap' = Heap]_vars

C15_Witness ==
    /\ last.op = "l_set"
    /\ last.index = 1
    /\ size[1] = MaxLen
    /\ WellFormed1
    /\ Elems1[2] = last.value
    /\ ret \in Values \ {last.value}

\* C16: l_get(L, i) returns the value at position i when 0 <= i < size and
\* NULL on an empty list or with i out of range; l_getFirst is l_get at 0
\* and l_getLast is l_get at size - 1; the list is left as it was.
C16_Get ==
    [][(/\ last'.op \in {"l_get", "l_getFirst", "l_getLast"}
        /\ WellFormed1) =>
          LET i == Position(last', size[1])
          IN  /\ status' = "ok"
              /\ ret' = IF i \in 0..(size[1] - 1) THEN Elems1[i + 1] ELSE NULL
              /\ Heap' = Heap]_vars

C16_Witness ==
    /\ last.op = "l_get"
    /\ last.index = size[1] - 1
    /\ size[1] = MaxLen
    /\ WellFormed1
    /\ ret = Elems1[MaxLen]
    /\ ret # Elems1[1]

Max(S) == CHOOSE x \in S : \A y \in S : x >= y

Matching(seq, sel) == {k \in 1..Len(seq) : seq[k] \in sel}

\* C17: l_findFirst(L, P) returns the smallest index whose element
\* satisfies P and l_findLast(L, P) the largest, both -1 when there is none;
\* l_matches(L, P) is true exactly when some element satisfies P; the list
\* is left as it was.
C17_Find ==
    [][(/\ last'.op \in {"l_findFirst", "l_findLast", "l_matches"}
        /\ WellFormed1) =>
          LET hits == Matching(Elems1, last'.sel)
          IN  /\ status' = "ok"
              /\ Heap' = Heap
              /\ last'.op = "l_findFirst" =>
                    ret' = IF hits = {} THEN -1 ELSE Min(hits) - 1
              /\ last'.op = "l_findLast" =>
                    ret' = IF hits = {} THEN -1 ELSE Max(hits) - 1
              /\ last'.op = "l_matches" => ret' = Bool(hits # {})]_vars

C17_Witness ==
    /\ last.op = "l_findLast"
    /\ ret = 1
    /\ size[1] = MaxLen
    /\ WellFormed1
    /\ Elems1[1] \in last.sel
    /\ Elems1[MaxLen] \notin last.sel

\* the destructor calls that list 1's destructor makes on the values of seq
Calls(seq) == [k \in 1..Len(seq) |-> <<destructor[1], seq[k]>>]

\* the destructor calls of the last call that were given an element
OnElements == SelectSeq(destroyed, LAMBDA c : c[2] # NULL)

DeleteOps == {"l_deleteFirst", "l_deleteLast", "l_delete", "l_deleteIf",
              "l_deleteAll", "i_delete"}
RemoveOps == {"l_removeFirst", "l_removeLast", "l_remove", "l_removeIf",
              "l_removeAll", "i_remove"}

\* what a removing call takes out of seq, in list order
Removed(call, seq, current) ==
    LET i == CASE call.op \in {"l_deleteFirst", "l_removeFirst"} -> 0
               [] call.op \in {"l_deleteLast", "l_removeLast"} -> Len(seq) - 1
               [] OTHER -> call.index
    IN  CASE call.op \in {"l_deleteIf", "l_removeIf"} -> Keep(seq, call.sel)
          [] call.op \in {"l_deleteAll", "l_removeAll"} -> seq
          [] call.op \in {"i_delete", "i_remove"} ->
                IF current = NULL THEN <<>> ELSE <<val[current]>>
          [] OTHER ->
                IF i \in 0..(Len(seq) - 1) THEN <<seq[i + 1]>> ELSE <<>>

\* C18: a delete-flavoured call (l_deleteFirst, l_deleteLast, l_delete,
\* l_deleteIf, l_deleteAll, i_delete) calls the list's destructor once on
\* each element it removes and on no other element; a remove-flavoured call
\* (l_removeFirst, l_removeLast, l_remove, l_removeIf, l_removeAll,
\* i_remove) does not call it; l_removeAll and l_deleteAll leave head and
\* tail NULL and size 0.
C18_Destructor ==
    [][(/\ last'.op \in DeleteOps \cup RemoveOps
        /\ WellFormed1) =>
          LET gone == Removed(last', Elems1, itr.current)
          IN  /\ status' = "ok"
              /\ size'[1] = size[1] - Len(gone)
              /\ last'.op \in DeleteOps => OnElements' = Calls(gone)
              /\ last'.op \in RemoveOps => destroyed' = <<>>
              /\ last'.op \in {"l_removeAll", "l_deleteAll"} =>
                    head'[1] = NULL /\ tail'[1] = NULL /\ size'[1] = 0]_vars

WellFormed2 == WellFormed(World, 2)
Shared == Range(Cells(World, 1)) \cap Range(Cells(World, 2))

\* C19: l_copy(L) returns a list with L's destructor and L's values in L's
\* order, made of nodes of its own, and leaves L as it was; a later
\* structural change to the copy (l_addLast on it, l_clear of it) leaves L's
\* sequence and size as they were.
C19_Copy ==
    [][/\ (last'.op = "l_copy" /\ WellFormed1) =>
            /\ status' = "ok"
            /\ Elems2' = Elems1
            /\ size'[2] = size[1]
            /\ destructor'[2] = destructor[1]
            /\ WellFormed2'
            /\ Shared' = {}
            /\ Elems1' = Elems1
            /\ WellFormed1'
            /\ <<head[1], tail[1], size[1], destructor[1]>>'
                  = <<head[1], tail[1], size[1], destructor[1]>>
       /\ (/\ copied
           /\ last'.op \in {"l_addLast", "l_clear"}
           /\ last'.index = 2
           /\ WellFormed1) =>
            /\ Elems1' = Elems1
            /\ size'[1] = size[1]
            /\ WellFormed1'
            /\ Shared' = {}]_vars

C19_Witness ==
    /\ copied
    /\ last.op = "l_addLast"
    /\ last.index = 2
    /\ destructor[2] = "caller"
    /\ size[1] = MaxLen - 1
    /\ Elems1[1] # Elems1[2]
    /\ Elems2 = Append(Elems1, last.value)
    /\ WellFormed1

\* C20: for all lists dest and src, the same list twice included,
\* l_addAll(dest, src) leaves dest holding its old sequence followed by the
\* values src had, in order, its size larger by the size src had, and, when
\* src is another list than dest, leaves src as it was.
C20_AddAll ==
    [][\A dest, src \in Lists :
          (/\ last'.op = "l_addAll"
           /\ last'.index = dest
           /\ last'.value = src
           /\ WellFormed1 /\ WellFormed2) =>
             /\ status' = "ok"
             /\ Elems(World, dest)' = Elems(World, dest) \o Elems(World, src)
             /\ size'[dest] = size[dest] + size[src]
             /\ src # dest =>
                   /\ Elems(World, src)' = Elems(World, src)
                   /\ size'[src] = size[src]
                   /\ WellFormed(World, src)']_vars

\* the function whose graph is g
Of(g) == [v \in Values |-> CHOOSE w \in Values : <<v, w>> \in g]

\* the events a mapping call owes to the elements of seq, position by position
RECURSIVE Script(_, _, _)
Script(seq, f, destroys) ==
    IF seq = <<>> THEN <<>>
    ELSE <<<<"apply", Head(seq)>>>>
            \o (IF destroys THEN <<<<"destroy", Head(seq)>>>> ELSE <<>>)
            \o <<<<"store", f[Head(seq)]>>>>
            \o Script(Tail(seq), f, destroys)

\* C21: l_map(L, f) and l_dmap(L, f) leave at every position f of the value
\* that was there, with size, order and links as they were; l_dmap calls the
\* destructor once per position, on the value the node held before the call,
\* after f was applied to it and before the node is overwritten, and on
\* nothing f produced for that position; l_map calls no destructor.
C21_Map ==
    [][(last'.op \in {"l_map", "l_dmap"} /\ WellFormed1) =>
          LET f == Of(last'.sel)
          IN  /\ status' = "ok"
              /\ Elems1' = [k \in 1..Len(Elems1) |-> f[Elems1[k]]]
              /\ <<nxt, alloc, head, tail, size>>'
                    = <<nxt, alloc, head, tail, size>>
              /\ events' = Script(Elems1, f, last'.op = "l_dmap")
              /\ destroyed' = IF last'.op = "l_dmap" THEN Calls(Elems1)
                                                      ELSE <<>>]_vars

C21_Witness ==
    /\ last.op = "l_dmap"
    /\ size[1] = MaxLen
    /\ Len(destroyed) = MaxLen
    /\ destroyed[1][2] # destroyed[2][2]
    /\ \A k \in 1..MaxLen : destroyed[k][2] # Elems1[k]
    /\ WellFormed1

\* reader i has returned the first elements of list 1, in order, and has a
\* node ahead exactly while it has not returned them all
InStep(i) ==
    readers[i].open =>
       /\ Len(readers[i].seen) <= Len(Elems1)
       /\ readers[i].seen = SubSeq(Elems1, 1, Len(readers[i].seen))
       /\ I_hasNext(readers[i].it) <=> Len(readers[i].seen) < Len(Elems1)

\* C22: two iterators over one list that are only asked i_hasNext and
\* i_next, their calls interleaved in any way, each return the elements of
\* the list once and in list order (every i_next returns the element after
\* the ones that iterator has returned, until it has returned them all), do
\* not disturb each other, and leave the list as it was.
C22_Readers ==
    [][(last'.op \in {"l_iterator", "i_hasNext", "i_next"} /\ WellFormed1) =>
          LET i == last'.index
              k == Len(readers[i].seen)
          IN  /\ status' = "ok"
              /\ Heap' = Heap
              /\ \A j \in Readers : InStep(j)'
              /\ \A j \in Readers \ {i} : readers'[j] = readers[j]
              /\ (last'.op = "i_next" /\ k < Len(Elems1)) =>
                    /\ ret' = Elems1[k + 1]
                    /\ readers'[i].seen = Append(readers[i].seen, ret')]_vars

C22_Witness ==
    /\ \A i \in Readers : readers[i].open
    /\ size[1] = MaxLen
    /\ readers[1].seen = Elems1
    /\ Len(readers[2].seen) = MaxLen - 1
    /\ last.op = "i_next"
    /\ last.index = 2
    /\ Elems1[1] # Elems1[2]

\* C25: i_hasNext changes neither the iterator nor the list and is true
\* exactly when the iterator has not yet returned every element; i_next
\* with no node ahead returns NULL and leaves previous, current, next and
\* index as they were; otherwise it moves current to the node that was
\* next, adds one to index and returns that node's value, so that a
\* traversal of an unmodified list of n elements returns its n values in
\* order and i_hasNext is false after the n-th.
C25_Traversal ==
    [][(last'.op \in {"i_hasNext", "i_next"} /\ WellFormed1) =>
          LET i == last'.index
              it == readers[i].it
              k == Len(readers[i].seen)
              n == Len(Elems1)
          IN  /\ status' = "ok"
              /\ Heap' = Heap
              /\ last'.op = "i_hasNext" =>
                    /\ readers' = readers
                    /\ ret' = Bool(k < n)
              /\ (last'.op = "i_next" /\ k = n) =>
                    /\ ret' = NULL
                    /\ readers' = readers
              /\ (last'.op = "i_next" /\ k < n) =>
                    /\ ret' = Elems1[k + 1]
                    /\ readers'[i].it.current = it.next
                    /\ readers'[i].it.next = nxt[it.next]
                    /\ readers'[i].it.index = it.index + 1
                    /\ readers'[i].it.index = k
                    /\ readers'[i].seen = Append(readers[i].seen, ret')
                    /\ (k + 1 = n) => ~I_hasNext(readers'[i].it)]_vars

C25_Witness ==
    /\ last.op = "i_next"
    /\ ret = NULL
    /\ size[1] = MaxLen
    /\ readers[last.index].open
    /\ readers[last.index].seen = Elems1
    /\ readers[last.index].it.index = MaxLen - 1
    /\ Elems1[1] # Elems1[MaxLen]

\* the zero-based position of node n in list 1, -1 when it is not in it
PositionOf(n) ==
    LET c == Cells(World, 1)
        at == {k \in 1..Len(c) : c[k] = n}
    IN  IF at = {} THEN -1 ELSE Min(at) - 1

PositionOfCurrent == PositionOf(itr.current)

\* C23: a new iterator has current NULL, index -1 and next at the head of
\* the list; after every i_next that returned an element, whatever i_next
\* and i_remove calls came before on that iterator, current is the node
\* returned, next is its successor, and index is the zero-based position
\* that node has in the list at that moment.
C23_IteratorIndex ==
    [][/\ last'.op = "l_iterator" =>
            /\ itr'.current = NULL
            /\ itr'.index = -1
            /\ itr'.next = head'[1]
       /\ (last'.op = "i_next" /\ I_hasNext(itr) /\ status' = "ok") =>
            /\ itr'.current = itr.next
            /\ ret' = val'[itr'.current]
            /\ itr'.next = nxt'[itr'.current]
            /\ itr'.index = PositionOfCurrent']_vars

\* `previous` is the node right before `current`, or none at the head
PreviousPrecedesCurrent ==
    itr.current # NULL =>
        IF itr.current = head[1]
        THEN itr.previous = NULL
        ELSE /\ itr.previous # NULL
             /\ PositionOf(itr.previous) >= 0
             /\ nxt[itr.previous] = itr.current

\* C24: every i_next and every i_remove call on the iterator ends in a
\* defined state where, whenever current is not none, previous is the node
\* immediately before current in the list, or none when current is the head;
\* the advance that follows a removal included.
C24_Previous ==
    [][(last'.op \in {"i_next", "i_remove"} /\ status = "ok") =>
            /\ status' = "ok"
            /\ PreviousPrecedesCurrent']_vars
\* C26: every list operation returns after a number of steps bounded by the
\* length of the list at the time of the call: no call is still running its
\* loop when that bound is used up, l_addAll(dest, src) with dest and src
\* the same list included.
C26_Terminates == status # "hung"
\* C27: after any sequence of l_addFirst, l_addLast, l_add, l_set,
\* l_removeFirst, l_removeLast, l_remove, l_delete and l_removeAll calls with
\* any indices, in range or not, and no iterator, the list is in a defined
\* state where size is the number of nodes reachable from head and never
\* negative, and a non-empty list has the last reachable node as its tail,
\* with no node after it.
C27_Structure ==
    LET c == Cells(World, 1)
    IN  /\ status = "ok"
        /\ size[1] = Len(c)
        /\ size[1] >= 0
        /\ c # <<>> => /\ tail[1] = c[Len(c)]
                       /\ nxt[tail[1]] = NULL

\* an element has been removed from the middle of a list of three
C27_Witness ==
    /\ last.op \in {"l_remove", "l_delete"}
    /\ last.index = 1
    /\ size[1] = 2
    /\ Len(Cells(World, 1)) = 2
    /\ status = "ok"
\* the string function recorded in last.sel
StringOf(g) == [v \in Values |-> CHOOSE w \in Strings : <<v, w>> \in g]

\* the element strings between brackets, ", " between neighbours
RECURSIVE Joined(_)
Joined(strs) ==
    IF strs = <<>> THEN <<>>
    ELSE IF Len(strs) = 1 THEN Head(strs)
    ELSE Head(strs) \o <<",", " ">> \o Joined(Tail(strs))

Rendered(strs) == <<"[">> \o Joined(strs) \o <<"]">>

\* C28: l_toString(L, f, length), for a list of any size n >= 0 whose
\* element strings have at most `length` characters, returns "[" followed by
\* the element strings in list order with ", " between neighbours and none
\* after the last, followed by "]" ("[]" for the empty list), and the buffer
\* of n * (length + 2) + 1 characters it allocates holds that string and its
\* terminator.
C28_ToString ==
    [][(/\ last'.op = "l_toString"
        /\ status = "ok"
        /\ \A k \in 1..Len(Elems1) :
              Len(StringOf(last'.sel)[Elems1[k]]) <= last'.index) =>
            /\ status' = "ok"
            /\ string' = Rendered([k \in 1..Len(Elems1) |->
                                      StringOf(last'.sel)[Elems1[k]]])
            /\ Len(string') + 1 <= size[1] * (last'.index + 2) + 1]_vars
====
